---- MODULE Spec2Model ----
(***************************************************************************)
(* Model of the two verification scripts of the repository:                *)
(*   src/verify/twilio_client.py  (messaging-client check)                 *)
(*   src/verify/transformer.py    (text-generation check)                  *)
(* Each script is one sequential process whose program counter is the line *)
(* it is about to execute.  The third-party libraries (dotenv, twilio,     *)
(* transformers) are outside the repository: every call into them either   *)
(* returns or raises, and the model takes both outcomes.                   *)
(* The messaging-client script is run twice (Runs) on the same process     *)
(* environment, each run beside its own .env file, so that two runs can be *)
(* compared.                                                               *)
(***************************************************************************)
EXTENDS Integers, Sequences, FiniteSets, TLC

\* ------------------------------------------------------------------ bounds
\* longest environment-variable value
MaxStrLen == 1
\* number of distinct completions the generation capability may return
NumOutputs == 2

\* ------------------------------------------------------- program constants
MaxLength == 20

\* ------------------------------------------------------------ Python values
PyNone == [type |-> "NoneType", value |-> ""]
PyStr(s) == [type |-> "str", value |-> s]
PyObj(cls, id) == [type |-> cls, value |-> id]
Unbound == [type |-> "unbound", value |-> ""]

RECURSIVE StrOfLen(_)
StrOfLen(n) == IF n = 0 THEN "" ELSE "a" \o StrOfLen(n - 1)
Strings == {StrOfLen(n) : n \in 0..MaxStrLen}

Runs == {1, 2}
VarNames == {"TWILIO_SID", "TWILIO_AUTH_TOKEN"}
\* an environment (or a .env file) defines some of the names
Environments == UNION {[S -> Strings] : S \in SUBSET VarNames}
DotenvFiles == UNION {[S -> {"d"}] : S \in SUBSET VarNames}
Outcomes == {"return", "raise"}
Outputs == {PyObj("list", i) : i \in 1..NumOutputs}

VARIABLES
    environ,      \* os.environ of each run of the messaging-client script
    dotenv,       \* contents of the .env file beside each run
    tw_pc,        \* line the messaging-client run is about to execute
    account_sid,
    auth_token,
    client,
    tw_stdout,    \* what the run has written to standard output
    tw_trace,     \* calls the run has made, in order
    tr_pc,        \* position of the text-generation script
    chatbot,
    generated,    \* value of chatbot("Hello!", max_length=20) awaiting print
    tr_stdout,
    tr_trace

twVars == <<environ, dotenv, tw_pc, account_sid, auth_token, client, tw_stdout, tw_trace>>
trVars == <<tr_pc, chatbot, generated, tr_stdout, tr_trace>>
vars == <<environ, dotenv, tw_pc, account_sid, auth_token, client, tw_stdout, tw_trace,
          tr_pc, chatbot, generated, tr_stdout, tr_trace>>

Call(op, args, kwargs, outcome, result) ==
    [op |-> op, args |-> args, kwargs |-> kwargs, outcome |-> outcome, result |-> result]

\* mutant: os.getenv(name, "")
GetenvDefaultEmpty(env, name) == IF name \in DOMAIN env THEN PyStr(env[name]) ELSE PyStr("")

\* os.getenv(name): the value of the variable, or the default None
Getenv(env, name) == IF name \in DOMAIN env THEN PyStr(env[name]) ELSE PyNone

\* str(obj), as print writes it
Repr(obj) == [type |-> "repr", value |-> obj]

Init ==
    /\ \E e \in Environments : environ = [r \in Runs |-> e]
    /\ dotenv \in [Runs -> DotenvFiles]
    /\ tw_pc = [r \in Runs |-> "l1"]
    /\ account_sid = [r \in Runs |-> Unbound]
    /\ auth_token = [r \in Runs |-> Unbound]
    /\ client = [r \in Runs |-> Unbound]
    /\ tw_stdout = [r \in Runs |-> <<>>]
    /\ tw_trace = [r \in Runs |-> <<>>]
    /\ tr_pc = "l1"
    /\ chatbot = Unbound
    /\ generated = Unbound
    /\ tr_stdout = <<>>
    /\ tr_trace = <<>>

\* ------------------------------------------- src/verify/twilio_client.py
\* line 1: import os
TwImportOs(r) ==
    /\ tw_pc[r] = "l1"
    /\ tw_pc' = [tw_pc EXCEPT ![r] = "l2"]
    /\ tw_trace' = [tw_trace EXCEPT ![r] = Append(@, Call("import", <<PyStr("os")>>, {}, "return", PyNone))]
    /\ UNCHANGED <<environ, dotenv, account_sid, auth_token, client, tw_stdout>>
    /\ UNCHANGED trVars

\* mutant: the import followed by load_dotenv(), which sets every variable of
\* the .env file that the process environment lacks
TwImportDotenvAndLoad(r) ==
    /\ tw_pc[r] = "l2"
    /\ \E outcome \in Outcomes :
        /\ tw_pc' = [tw_pc EXCEPT ![r] = IF outcome = "return" THEN "l3" ELSE "failed"]
        /\ tw_trace' = [tw_trace EXCEPT ![r] = Append(@, Call("import", <<PyStr("dotenv")>>, {}, outcome, PyNone))]
        /\ environ' = [environ EXCEPT ![r] =
                IF outcome = "return"
                THEN [n \in DOMAIN @ \cup DOMAIN dotenv[r] |->
                        IF n \in DOMAIN @ THEN @[n] ELSE dotenv[r][n]]
                ELSE @]
    /\ UNCHANGED <<dotenv, account_sid, auth_token, client, tw_stdout>>
    /\ UNCHANGED trVars

\* line 2: from dotenv import load_dotenv  (the name is bound, never called)
TwImportDotenv(r) ==
    /\ tw_pc[r] = "l2"
    /\ \E outcome \in Outcomes :
        /\ tw_pc' = [tw_pc EXCEPT ![r] = IF outcome = "return" THEN "l3" ELSE "failed"]
        /\ tw_trace' = [tw_trace EXCEPT ![r] = Append(@, Call("import", <<PyStr("dotenv")>>, {}, outcome, PyNone))]
    /\ UNCHANGED <<environ, dotenv, account_sid, auth_token, client, tw_stdout>>
    /\ UNCHANGED trVars

\* line 3: from twilio.rest import Client
TwImportTwilio(r) ==
    /\ tw_pc[r] = "l3"
    /\ \E outcome \in Outcomes :
        /\ tw_pc' = [tw_pc EXCEPT ![r] = IF outcome = "return" THEN "l5" ELSE "failed"]
        /\ tw_trace' = [tw_trace EXCEPT ![r] = Append(@, Call("import", <<PyStr("twilio.rest")>>, {}, outcome, PyNone))]
    /\ UNCHANGED <<environ, dotenv, account_sid, auth_token, client, tw_stdout>>
    /\ UNCHANGED trVars

\* mutant: account_sid = os.environ.setdefault("TWILIO_SID", "")
TwGetSidSetdefault(r) ==
    /\ tw_pc[r] = "l5"
    /\ LET v == Getenv(environ[r], "TWILIO_SID") IN
        /\ account_sid' = [account_sid EXCEPT ![r] = IF v = PyNone THEN PyStr("") ELSE v]
        /\ tw_trace' = [tw_trace EXCEPT ![r] = Append(@, Call("os.getenv", <<PyStr("TWILIO_SID")>>, {}, "return", v))]
        /\ environ' = [environ EXCEPT ![r] =
                IF v = PyNone
                THEN [n \in DOMAIN @ \cup {"TWILIO_SID"} |-> IF n \in DOMAIN @ THEN @[n] ELSE ""]
                ELSE @]
    /\ tw_pc' = [tw_pc EXCEPT ![r] = "l6"]
    /\ UNCHANGED <<dotenv, auth_token, client, tw_stdout>>
    /\ UNCHANGED trVars

\* line 5: account_sid = os.getenv("TWILIO_SID")
TwGetSid(r) ==
    /\ tw_pc[r] = "l5"
    /\ LET v == Getenv(environ[r], "TWILIO_SID") IN
        /\ account_sid' = [account_sid EXCEPT ![r] = v]
        /\ tw_trace' = [tw_trace EXCEPT ![r] = Append(@, Call("os.getenv", <<PyStr("TWILIO_SID")>>, {}, "return", v))]
    /\ tw_pc' = [tw_pc EXCEPT ![r] = "l6"]
    /\ UNCHANGED <<environ, dotenv, auth_token, client, tw_stdout>>
    /\ UNCHANGED trVars

\* line 6: auth_token = os.getenv("TWILIO_AUTH_TOKEN")
TwGetToken(r) ==
    /\ tw_pc[r] = "l6"
    /\ LET v == Getenv(environ[r], "TWILIO_AUTH_TOKEN") IN
        /\ auth_token' = [auth_token EXCEPT ![r] = v]
        /\ tw_trace' = [tw_trace EXCEPT ![r] = Append(@, Call("os.getenv", <<PyStr("TWILIO_AUTH_TOKEN")>>, {}, "return", v))]
    /\ tw_pc' = [tw_pc EXCEPT ![r] = "l7"]
    /\ UNCHANGED <<environ, dotenv, account_sid, client, tw_stdout>>
    /\ UNCHANGED trVars

\* mutant: client = Client(auth_token, account_sid)
TwConstructSwapped(r) ==
    /\ tw_pc[r] = "l7"
    /\ \E outcome \in Outcomes :
        LET h == IF outcome = "return" THEN PyObj("Client", r) ELSE PyNone IN
        /\ tw_trace' = [tw_trace EXCEPT ![r] =
                Append(@, Call("Client", <<auth_token[r], account_sid[r]>>, {}, outcome, h))]
        /\ client' = [client EXCEPT ![r] = IF outcome = "return" THEN h ELSE @]
        /\ tw_pc' = [tw_pc EXCEPT ![r] = IF outcome = "return" THEN "l8" ELSE "failed"]
    /\ UNCHANGED <<environ, dotenv, account_sid, auth_token, tw_stdout>>
    /\ UNCHANGED trVars

\* line 7: client = Client(account_sid, auth_token)
TwConstruct(r) ==
    /\ tw_pc[r] = "l7"
    /\ \E outcome \in Outcomes :
        LET h == IF outcome = "return" THEN PyObj("Client", r) ELSE PyNone IN
        /\ tw_trace' = [tw_trace EXCEPT ![r] =
                Append(@, Call("Client", <<account_sid[r], auth_token[r]>>, {}, outcome, h))]
        /\ client' = [client EXCEPT ![r] = IF outcome = "return" THEN h ELSE @]
        /\ tw_pc' = [tw_pc EXCEPT ![r] = IF outcome = "return" THEN "l8" ELSE "failed"]
    /\ UNCHANGED <<environ, dotenv, account_sid, auth_token, tw_stdout>>
    /\ UNCHANGED trVars

\* mutant: print(client) followed by client.messages.create(...)
TwPrintAndSend(r) ==
    /\ tw_pc[r] = "l8"
    /\ tw_trace' = [tw_trace EXCEPT ![r] =
            Append(Append(@, Call("print", <<client[r]>>, {}, "return", PyNone)),
                   Call("messages.create", <<client[r]>>, {}, "return", PyNone))]
    /\ tw_stdout' = [tw_stdout EXCEPT ![r] = Append(@, Repr(client[r]))]
    /\ tw_pc' = [tw_pc EXCEPT ![r] = "done"]
    /\ UNCHANGED <<environ, dotenv, account_sid, auth_token, client>>
    /\ UNCHANGED trVars

\* line 8: print(client)
TwPrint(r) ==
    /\ tw_pc[r] = "l8"
    /\ tw_trace' = [tw_trace EXCEPT ![r] = Append(@, Call("print", <<client[r]>>, {}, "return", PyNone))]
    /\ tw_stdout' = [tw_stdout EXCEPT ![r] = Append(@, Repr(client[r]))]
    /\ tw_pc' = [tw_pc EXCEPT ![r] = "done"]
    /\ UNCHANGED <<environ, dotenv, account_sid, auth_token, client>>
    /\ UNCHANGED trVars

TwStep(r) ==
    \/ TwImportOs(r)
    \/ TwImportDotenv(r)
    \/ TwImportTwilio(r)
    \/ TwGetSid(r)
    \/ TwGetToken(r)
    \/ TwConstruct(r)
    \/ TwPrint(r)

\* --------------------------------------------- src/verify/transformer.py
\* line 1: from transformers import pipeline
TrImport ==
    /\ tr_pc = "l1"
    /\ \E outcome \in Outcomes :
        /\ tr_pc' = IF outcome = "return" THEN "l2" ELSE "failed"
        /\ tr_trace' = Append(tr_trace, Call("import", <<PyStr("transformers")>>, {}, outcome, PyNone))
    /\ UNCHANGED <<chatbot, generated, tr_stdout>>
    /\ UNCHANGED twVars

\* mutant: the load wrapped in try/except that prints the error and goes on to
\* the end of the script
TrLoadCaught ==
    /\ tr_pc = "l2"
    /\ \E outcome \in Outcomes :
        LET p == IF outcome = "return" THEN PyObj("Pipeline", "distilgpt2") ELSE PyNone IN
        /\ tr_trace' = Append(tr_trace,
                Call("pipeline", <<PyStr("text-generation")>>, {<<"model", PyStr("distilgpt2")>>}, outcome, p))
        /\ chatbot' = IF outcome = "return" THEN p ELSE chatbot
        /\ tr_pc' = IF outcome = "return" THEN "l3_call" ELSE "done"
        /\ tr_stdout' = IF outcome = "return" THEN tr_stdout ELSE Append(tr_stdout, Repr(PyStr("error")))
    /\ UNCHANGED generated
    /\ UNCHANGED twVars

\* line 2: chatbot = pipeline("text-generation", model="distilgpt2")
TrLoad ==
    /\ tr_pc = "l2"
    /\ \E outcome \in Outcomes :
        LET p == IF outcome = "return" THEN PyObj("Pipeline", "distilgpt2") ELSE PyNone IN
        /\ tr_trace' = Append(tr_trace,
                Call("pipeline", <<PyStr("text-generation")>>, {<<"model", PyStr("distilgpt2")>>}, outcome, p))
        /\ chatbot' = IF outcome = "return" THEN p ELSE chatbot
        /\ tr_pc' = IF outcome = "return" THEN "l3_call" ELSE "failed"
    /\ UNCHANGED <<generated, tr_stdout>>
    /\ UNCHANGED twVars

\* mutant: a generation call that raised is made a second time
TrGenerateRetry ==
    /\ tr_pc = "l3_call"
    /\ \E outcome \in Outcomes : \E out \in Outputs :
        LET res == IF outcome = "return" THEN out ELSE PyNone
            first == Call("chatbot", <<PyStr("Hello!")>>, {<<"max_length", MaxLength>>}, "raise", PyNone)
            second == Call("chatbot", <<PyStr("Hello!")>>, {<<"max_length", MaxLength>>}, outcome, res)
        IN
        /\ tr_trace' \in {Append(tr_trace, second), Append(Append(tr_trace, first), second)}
        /\ generated' = IF outcome = "return" THEN res ELSE generated
        /\ tr_pc' = IF outcome = "return" THEN "l3_print" ELSE "failed"
    /\ UNCHANGED <<chatbot, tr_stdout>>
    /\ UNCHANGED twVars

\* line 3, the argument: chatbot("Hello!", max_length=20)
TrGenerate ==
    /\ tr_pc = "l3_call"
    /\ \E outcome \in Outcomes : \E out \in Outputs :
        LET res == IF outcome = "return" THEN out ELSE PyNone IN
        /\ tr_trace' = Append(tr_trace,
                Call("chatbot", <<PyStr("Hello!")>>, {<<"max_length", MaxLength>>}, outcome, res))
        /\ generated' = IF outcome = "return" THEN res ELSE generated
        /\ tr_pc' = IF outcome = "return" THEN "l3_print" ELSE "failed"
    /\ UNCHANGED <<chatbot, tr_stdout>>
    /\ UNCHANGED twVars

\* mutant: the call and the print inside a loop (while True)
TrPrintLoop ==
    /\ tr_pc = "l3_print"
    /\ tr_trace' = Append(tr_trace, Call("print", <<generated>>, {}, "return", PyNone))
    /\ tr_stdout' = Append(tr_stdout, Repr(generated))
    /\ tr_pc' = "l3_call"
    /\ UNCHANGED <<chatbot, generated>>
    /\ UNCHANGED twVars

\* line 3, the call: print(...)
TrPrint ==
    /\ tr_pc = "l3_print"
    /\ tr_trace' = Append(tr_trace, Call("print", <<generated>>, {}, "return", PyNone))
    /\ tr_stdout' = Append(tr_stdout, Repr(generated))
    /\ tr_pc' = "done"
    /\ UNCHANGED <<chatbot, generated>>
    /\ UNCHANGED twVars

TrStep ==
    \/ TrImport
    \/ TrLoad
    \/ TrGenerate
    \/ TrPrint

Next ==
    \/ \E r \in Runs : TwStep(r)
    \/ TrStep

Spec == Init /\ [][Next]_vars

\* the interpreter runs each script to its end: a call that returns or raises
\* is followed by the next statement
FairSpec == Spec /\ WF_vars(TrStep) /\ \A r \in Runs : WF_vars(TwStep(r))

\* ================================================================ claims
CallsOf(trace, op) == SelectSeq(trace, LAMBDA c : c.op = op)
IsPrefix(s, t) == Len(s) <= Len(t) /\ \A i \in 1..Len(s) : s[i] = t[i]
\* what the process environment holds for a name, None when it is absent
InEnviron(r, name) ==
    IF name \in DOMAIN environ[r] THEN PyStr(environ[r][name]) ELSE PyNone
TwFinal(r) == tw_pc[r] \in {"done", "failed"}
TrFinal == tr_pc \in {"done", "failed"}

\* C1: the messaging-client script reads exactly TWILIO_SID and then
\* TWILIO_AUTH_TOKEN, each by a getenv call with the name alone (no default);
\* the one Client call receives the two values as the environment holds them,
\* account identifier first and token second; and what is printed is the
\* representation of the handle that call returned.
C1_ReadConstructPrint ==
    \A r \in Runs :
        LET reads == CallsOf(tw_trace[r], "os.getenv")
            made == CallsOf(tw_trace[r], "Client")
            expected == <<Call("os.getenv", <<PyStr("TWILIO_SID")>>, {}, "return",
                               InEnviron(r, "TWILIO_SID")),
                          Call("os.getenv", <<PyStr("TWILIO_AUTH_TOKEN")>>, {}, "return",
                               InEnviron(r, "TWILIO_AUTH_TOKEN"))>>
        IN  /\ IsPrefix(reads, expected)
            /\ Len(made) <= 1
            /\ Len(made) = 1 =>
                /\ reads = expected
                /\ made[1].args = <<InEnviron(r, "TWILIO_SID"), InEnviron(r, "TWILIO_AUTH_TOKEN")>>
                /\ made[1].kwargs = {}
            /\ tw_pc[r] \in {"l8", "done"} => Len(made) = 1 /\ made[1].outcome = "return"
            /\ tw_pc[r] = "done" => tw_stdout[r] = <<Repr(made[1].result)>>
            /\ tw_pc[r] # "done" => tw_stdout[r] = <<>>

C1_Witness ==
    \E r \in Runs :
        /\ tw_pc[r] = "done"
        /\ Len(tw_stdout[r]) = 1
        /\ DOMAIN environ[r] = VarNames
        /\ environ[r]["TWILIO_SID"] # environ[r]["TWILIO_AUTH_TOKEN"]

\* C2: the generation capability is invoked at most once, only after the model
\* load has returned, with the prompt "Hello!" and max_length=20 and nothing
\* else; once the script is past that call it has been invoked exactly once
\* (never retried); its result is written to standard output exactly once, and
\* only after the invocation has returned.
C2_GenerateOncePrintOnce ==
    LET gens == CallsOf(tr_trace, "chatbot")
        loads == CallsOf(tr_trace, "pipeline")
        prints == CallsOf(tr_trace, "print")
    IN  /\ Len(gens) <= 1
        /\ Len(prints) <= 1
        /\ Len(gens) = 1 =>
            /\ gens[1].args = <<PyStr("Hello!")>>
            /\ gens[1].kwargs = {<<"max_length", MaxLength>>}
            /\ Len(tr_trace) >= 2
            /\ tr_trace[Len(tr_trace) - Len(prints) - 1] = loads[1]
            /\ loads[1].outcome = "return"
            /\ tr_trace[Len(tr_trace) - Len(prints)] = gens[1]
        /\ tr_pc \in {"l1", "l2", "l3_call"} => Len(gens) = 0
        /\ tr_pc \in {"l3_print", "done"} => Len(gens) = 1 /\ gens[1].outcome = "return"
        /\ tr_pc = "done" =>
            /\ Len(prints) = 1
            /\ prints[1].args = <<gens[1].result>>
            /\ tr_stdout = <<Repr(gens[1].result)>>
        /\ tr_pc # "done" => Len(prints) = 0 /\ tr_stdout = <<>>

C2_Witness ==
    /\ tr_pc = "done"
    /\ Len(CallsOf(tr_trace, "chatbot")) = 1
    /\ Len(tr_stdout) = 1

\* C3: when an external call raises, the script is failed: the raising call is
\* the last thing the script did and the only call that raised (no retry),
\* nothing has been or will be printed (not caught, logged or translated), and
\* no later step of that script runs.
Raised(trace) == SelectSeq(trace, LAMBDA c : c.outcome = "raise")

C3_FailedState ==
    /\ Len(Raised(tr_trace)) > 0 =>
        /\ tr_pc = "failed"
        /\ Len(Raised(tr_trace)) = 1
        /\ tr_trace[Len(tr_trace)].outcome = "raise"
        /\ tr_stdout = <<>>
    /\ \A r \in Runs : Len(Raised(tw_trace[r])) > 0 =>
        /\ tw_pc[r] = "failed"
        /\ Len(Raised(tw_trace[r])) = 1
        /\ tw_trace[r][Len(tw_trace[r])].outcome = "raise"
        /\ tw_stdout[r] = <<>>

C3_FailedFrozen ==
    /\ tr_pc = "failed" => UNCHANGED trVars
    /\ \A r \in Runs : tw_pc[r] = "failed" =>
        /\ tw_pc'[r] = "failed"
        /\ tw_trace'[r] = tw_trace[r]
        /\ tw_stdout'[r] = tw_stdout[r]
        /\ client'[r] = client[r]

C3_FailureEndsScript == []C3_FailedState /\ [][C3_FailedFrozen]_vars

C3_Witness ==
    /\ tr_pc = "failed"
    /\ tr_trace[Len(tr_trace)].op = "chatbot"
    /\ \E r \in Runs : tw_pc[r] = "failed" /\ tw_trace[r][Len(tw_trace[r])].op = "Client"

\* C4 as stated: with TWILIO_SID or TWILIO_AUTH_TOKEN absent, the construction
\* call, once made, yields a client object (which the script goes on to print).
Absent(r) == VarNames \ DOMAIN environ[r]

C4_AbsentYieldsClient ==
    \A r \in Runs :
        LET made == CallsOf(tw_trace[r], "Client") IN
        (Absent(r) # {} /\ Len(made) = 1) =>
            /\ made[1].outcome = "return"
            /\ client[r] = made[1].result
            /\ tw_pc[r] \in {"l8", "done"}

\* C4 amended: with TWILIO_SID or TWILIO_AUTH_TOKEN absent the script does not
\* fail on its own account (it fails only where an external import or the
\* construction call raised, never at a getenv), and it passes None for each
\* absent credential; the construction call then either raises, and the script
\* ends failed with nothing printed, or returns a client object, whose
\* representation the script prints.
C4_AbsentPassesNone ==
    \A r \in Runs :
        LET made == CallsOf(tw_trace[r], "Client")
            reads == CallsOf(tw_trace[r], "os.getenv")
        IN  Absent(r) # {} =>
            /\ \A i \in 1..Len(reads) : reads[i].outcome = "return"
            /\ tw_pc[r] = "failed" =>
                tw_trace[r][Len(tw_trace[r])].op \in {"import", "Client"}
            /\ tw_pc[r] \in {"l7", "l8", "done"} => Len(reads) = 2
            /\ Len(made) = 1 =>
                /\ "TWILIO_SID" \in Absent(r) => made[1].args[1] = PyNone
                /\ "TWILIO_AUTH_TOKEN" \in Absent(r) => made[1].args[2] = PyNone
                /\ made[1].outcome = "raise" => tw_pc[r] = "failed" /\ tw_stdout[r] = <<>>
                /\ made[1].outcome = "return" =>
                    /\ tw_pc[r] \in {"l8", "done"}
                    /\ made[1].result = PyObj("Client", r)
                    /\ tw_pc[r] = "done" => tw_stdout[r] = <<Repr(PyObj("Client", r))>>

C4_Witness ==
    \E r \in Runs :
        /\ "TWILIO_SID" \in Absent(r)
        /\ tw_pc[r] = "done"
        /\ Len(tw_stdout[r]) = 1
        /\ CallsOf(tw_trace[r], "Client")[1].args[1] = PyNone

\* C7: the only things the messaging-client script does with the client handle
\* are to construct it and then to print it: every call the script makes is an
\* import, a getenv, the construction or the print, the handle appears in no
\* call but the construction (as its result) and the print (as its argument),
\* each happens at most once and in that order; no message is sent and no
\* request is issued.
Mentions(c, h) == c.result = h \/ \E i \in 1..Len(c.args) : c.args[i] = h

C7_ConstructThenPrintOnly ==
    \A r \in Runs :
        LET t == tw_trace[r]
            h == PyObj("Client", r)
            uses == SelectSeq(t, LAMBDA c : Mentions(c, h))
        IN  /\ \A i \in 1..Len(t) : t[i].op \in {"import", "os.getenv", "Client", "print"}
            /\ Len(uses) <= 2
            /\ Len(uses) >= 1 => uses[1].op = "Client" /\ uses[1].result = h
            /\ Len(uses) = 2 => uses[2].op = "print" /\ uses[2].args = <<h>>
            /\ tw_pc[r] = "done" => Len(uses) = 2 /\ t[Len(t)] = uses[2]

C7_Witness ==
    \E r \in Runs :
        /\ tw_pc[r] = "done"
        /\ Len(SelectSeq(tw_trace[r], LAMBDA c : Mentions(c, PyObj("Client", r)))) = 2

\* C8: no step of either script changes the process environment or a file, or
\* makes a call other than the imports, the two getenv reads, the external
\* calls and print; each environment variable is read at most once, and exactly
\* once by the time the client is constructed; a step of one script leaves the
\* other script's state alone, and no call of one script carries a value the
\* other produced; a successful run has written to standard output once.
ReadsOf(r, name) ==
    SelectSeq(tw_trace[r], LAMBDA c : c.op = "os.getenv" /\ c.args = <<PyStr(name)>>)

C8_EffectsState ==
    /\ \A i \in 1..Len(tr_trace) :
        /\ tr_trace[i].op \in {"import", "pipeline", "chatbot", "print"}
        /\ \A r \in Runs : ~Mentions(tr_trace[i], PyObj("Client", r))
    /\ tr_pc = "done" => Len(tr_stdout) = 1
    /\ \A r \in Runs :
        /\ \A i \in 1..Len(tw_trace[r]) :
            /\ tw_trace[r][i].op \in {"import", "os.getenv", "Client", "print"}
            /\ ~Mentions(tw_trace[r][i], chatbot)
            /\ \A o \in Outputs : ~Mentions(tw_trace[r][i], o)
        /\ \A name \in VarNames :
            /\ Len(ReadsOf(r, name)) <= 1
            /\ tw_pc[r] \in {"l7", "l8", "done"} => Len(ReadsOf(r, name)) = 1
        /\ tw_pc[r] = "done" => Len(tw_stdout[r]) = 1

C8_EffectsStep ==
    /\ environ' = environ
    /\ dotenv' = dotenv
    /\ trVars' # trVars => UNCHANGED twVars
    /\ twVars' # twVars => UNCHANGED trVars
    /\ \A r \in Runs : tw_pc'[r] # tw_pc[r] =>
        \A q \in Runs \ {r} :
            /\ tw_pc'[q] = tw_pc[q]
            /\ tw_trace'[q] = tw_trace[q]
            /\ tw_stdout'[q] = tw_stdout[q]
            /\ client'[q] = client[q]

C8_NoOutsideEffect == []C8_EffectsState /\ [][C8_EffectsStep]_vars

C8_Witness ==
    /\ tr_pc = "done"
    /\ Len(tr_stdout) = 1
    /\ \E r \in Runs :
        /\ tw_pc[r] = "done"
        /\ Len(tw_stdout[r]) = 1
        /\ \A name \in VarNames : Len(ReadsOf(r, name)) = 1

\* C9: each script is one sequential process: every step moves it to a later
\* position and adds exactly one call to its record, so no step runs twice;
\* the text-generation script ends after at most 4 steps and the
\* messaging-client script after at most 7; and, every external call
\* returning or raising, each script does reach its final state (done, or
\* failed) and stays there.
TwRank(pc) ==
    CASE pc = "l1" -> 1 [] pc = "l2" -> 2 [] pc = "l3" -> 3 [] pc = "l5" -> 4
      [] pc = "l6" -> 5 [] pc = "l7" -> 6 [] pc = "l8" -> 7 [] OTHER -> 8
TrRank(pc) ==
    CASE pc = "l1" -> 1 [] pc = "l2" -> 2 [] pc = "l3_call" -> 3 [] pc = "l3_print" -> 4
      [] OTHER -> 5

C9_Bounded ==
    /\ Len(tr_trace) <= 4
    /\ tr_pc = "done" => Len(tr_trace) = 4
    /\ \A r \in Runs :
        /\ Len(tw_trace[r]) <= 7
        /\ tw_pc[r] = "done" => Len(tw_trace[r]) = 7

C9_Forward ==
    /\ tr_trace' # tr_trace \/ tr_pc' # tr_pc =>
        /\ TrRank(tr_pc') > TrRank(tr_pc)
        /\ Len(tr_trace') = Len(tr_trace) + 1
    /\ \A r \in Runs : (tw_trace'[r] # tw_trace[r] \/ tw_pc'[r] # tw_pc[r]) =>
        /\ TwRank(tw_pc'[r]) > TwRank(tw_pc[r])
        /\ Len(tw_trace'[r]) = Len(tw_trace[r]) + 1

C9_RunsToEnd ==
    /\ []C9_Bounded
    /\ [][C9_Forward]_vars
    /\ <>[](TrFinal /\ \A r \in Runs : TwFinal(r))

C9_Witness ==
    /\ tr_pc = "done"
    /\ \E r \in Runs : tw_pc[r] = "done"
    /\ \E r \in Runs : tw_pc[r] = "failed"

\* C10: load_dotenv is never called, so the .env file does not reach the
\* credentials: two runs of the messaging-client script that start from the same
\* process environment pass the same two arguments to the construction call,
\* whatever their two .env files hold (Init gives both runs one environment
\* and each its own .env file).
C10_DotenvHasNoEffect ==
    \A r \in Runs : \A q \in Runs :
        LET mr == CallsOf(tw_trace[r], "Client")
            mq == CallsOf(tw_trace[q], "Client")
        IN  (Len(mr) = 1 /\ Len(mq) = 1) => mr[1].args = mq[1].args

C10_Witness ==
    /\ \A r \in Runs : Len(CallsOf(tw_trace[r], "Client")) = 1
    /\ dotenv[1] # dotenv[2]
    /\ "TWILIO_SID" \in DOMAIN dotenv[1]
    /\ "TWILIO_SID" \notin DOMAIN environ[1]
    /\ "TWILIO_AUTH_TOKEN" \in DOMAIN environ[1]

====
